---- MODULE Spec2Model ----
(***************************************************************************)
(* A model of the coupon validation service of src/main.py: the            *)
(* jurisdiction matcher, the coupon date window, the coupon cache with its *)
(* four sources, and the request handlers around them.                     *)
(*                                                                         *)
(* Text is a tuple of one-character strings, so that trimming, case        *)
(* folding and the regular expressions of normalize_jurisdiction act on    *)
(* characters as they do in the code.  A calendar date is its proleptic    *)
(* Gregorian ordinal (date.toordinal()), the wall clock is in seconds.     *)
(***************************************************************************)
EXTENDS Integers, Sequences, FiniteSets, TLC

VARIABLES
    now,                \* the wall clock (datetime.now()), seconds since the process started
    coupon_cache,       \* _coupon_cache: the cached mapping code -> record
    coupon_cache_time,  \* _coupon_cache_time: when the cache was stored, or NoTime
    remote_xlsx,        \* what a GET of COUPONS_GCS_XLSX_URL yields
    remote_csv,         \* what a GET of COUPONS_GCS_CSV_URL yields
    local_xlsx,         \* the file at COUPONS_XLSX_PATH
    local_csv,          \* the file at COUPONS_CSV_PATH
    uploads,            \* /api/upload-coupons requests awaiting their body
    cache_load,         \* history: the load that assigned _coupon_cache (0: none, or cleared)
    time_load,          \* history: the load that assigned _coupon_cache_time (0: none, or cleared)
    nticks,             \* history: number of clock steps so far
    last,               \* the last handler or call that ran, with what it saw and returned
    pc,                 \* position of a single call of a pure function
    args,               \* its arguments
    ret                 \* its return value

vars == <<now, coupon_cache, coupon_cache_time, remote_xlsx, remote_csv, local_xlsx,
          local_csv, uploads, cache_load, time_load, nticks, last, pc, args, ret>>

sysvars == <<coupon_cache, coupon_cache_time, remote_xlsx, remote_csv, local_xlsx,
             local_csv, uploads, cache_load, time_load, nticks, last>>

-----------------------------------------------------------------------------
(* Text *)

\* Python's None where a str is expected: a tuple that is no text.
None == <<"None">>

\* Python truthiness of a str-or-None value.
Truthy(x) == x # None /\ x # <<>>

UpperLetters == <<"A","B","C","D","E","F","G","H","I","J","K","L","M","N","O","P","Q","R","S","T","U","V","W","X","Y","Z">>
LowerLetters == <<"a","b","c","d","e","f","g","h","i","j","k","l","m","n","o","p","q","r","s","t","u","v","w","x","y","z">>
Digits == <<"0","1","2","3","4","5","6","7","8","9">>

Range(f) == {f[i] : i \in DOMAIN f}

UpperSet == Range(UpperLetters)
LowerSet == Range(LowerLetters)
DigitSet == Range(Digits)

\* the lower-case and upper-case forms of the letters
ToLower == [c \in UpperSet |-> LowerLetters[CHOOSE i \in 1..26 : UpperLetters[i] = c]]
ToUpper == [c \in LowerSet |-> UpperLetters[CHOOSE i \in 1..26 : LowerLetters[i] = c]]

LowerChar(c) == IF c \in UpperSet THEN ToLower[c] ELSE c
UpperChar(c) == IF c \in LowerSet THEN ToUpper[c] ELSE c

\* str.lower() and str.upper()
Lower(s) == [i \in 1..Len(s) |-> LowerChar(s[i])]
Upper(s) == [i \in 1..Len(s) |-> UpperChar(s[i])]

\* Whitespace, for str.strip() and the regular expression class \s
IsSpace(c) == c \in {" ", "\t", "\n"}

\* A word character, for the regular expression assertion \b
WordSet == UpperSet \cup LowerSet \cup DigitSet \cup {"_"}
IsWord(c) == c \in WordSet

\* str.strip()
Strip(s) ==
    LET keep == {i \in 1..Len(s) : ~IsSpace(s[i])}
    IN  IF keep = {} THEN <<>>
        ELSE LET lo == CHOOSE i \in keep : \A j \in keep : i <= j
                 hi == CHOOSE i \in keep : \A j \in keep : j <= i
             IN  SubSeq(s, lo, hi)

\* whether `sub` occurs in s
Contains(s, sub) ==
    \E i \in 1..(Len(s) - Len(sub) + 1) : SubSeq(s, i, i + Len(sub) - 1) = sub

-----------------------------------------------------------------------------
(* normalize_jurisdiction *)

\* The patterns of normalize_jurisdiction, in the order it applies them.  Each is
\* a literal followed by \b, preceded either by \b or by a comma and \s*.
patterns == <<
    [comma |-> FALSE, lit |-> <<"c","i","t","y"," ","o","f">>],          \* \bcity of\b
    [comma |-> TRUE,  lit |-> <<"c","i","t","y"," ","o","f">>],          \* ,\s*city of\b
    [comma |-> FALSE, lit |-> <<"c","i","t","y">>],                      \* \bcity\b
    [comma |-> FALSE, lit |-> <<"c","o","u","n","t","y"," ","o","f">>],  \* \bcounty of\b
    [comma |-> TRUE,  lit |-> <<"c","o","u","n","t","y"," ","o","f">>],  \* ,\s*county of\b
    [comma |-> FALSE, lit |-> <<"c","o","u","n","t","y">>] >>            \* \bcounty\b

\* the literal (matched ignoring case) at position i of s, followed by \b
LitAt(s, i, lit) ==
    /\ i >= 1
    /\ i + Len(lit) - 1 <= Len(s)
    /\ Lower(SubSeq(s, i, i + Len(lit) - 1)) = lit
    /\ (i + Len(lit) - 1 = Len(s) \/ ~IsWord(s[i + Len(lit)]))

\* first position at or after i of s that holds no whitespace (Len(s)+1 if none)
RECURSIVE SkipSpaces(_, _)
SkipSpaces(s, i) ==
    IF i <= Len(s) /\ IsSpace(s[i]) THEN SkipSpaces(s, i + 1) ELSE i

\* length of the match of pattern p that starts at position i of s, 0 if none
MatchLen(s, i, p) ==
    IF p.comma
    THEN IF s[i] = "," /\ LitAt(s, SkipSpaces(s, i + 1), p.lit)
         THEN SkipSpaces(s, i + 1) + Len(p.lit) - i
         ELSE 0
    ELSE IF (i = 1 \/ ~IsWord(s[i - 1])) /\ LitAt(s, i, p.lit)
         THEN Len(p.lit)
         ELSE 0

\* re.sub(p, '', s): the non-overlapping matches, leftmost first, removed
RECURSIVE SubFrom(_, _, _)
SubFrom(p, s, i) ==
    IF i > Len(s) THEN <<>>
    ELSE IF MatchLen(s, i, p) > 0 THEN SubFrom(p, s, i + MatchLen(s, i, p))
    ELSE <<s[i]>> \o SubFrom(p, s, i + 1)

re_sub(p, s) == SubFrom(p, s, 1)

RECURSIVE ApplyPatterns(_, _)
ApplyPatterns(s, k) ==
    IF k > Len(patterns) THEN s ELSE ApplyPatterns(re_sub(patterns[k], s), k + 1)

normalize_jurisdiction(name) ==
    IF ~Truthy(name) THEN <<>>
    ELSE Strip(ApplyPatterns(Strip(Lower(name)), 1))

-----------------------------------------------------------------------------
(* jurisdictions_match *)

is_city_claim(jurisdiction) == Contains(Lower(jurisdiction), <<"c","i","t","y">>)

Unincorporated == <<"U","n","i","n","c","o","r","p","o","r","a","t","e","d"," ","a","r","e","a">>
Unknown == <<"U","n","k","n","o","w","n">>

\* jurisdictions_match as it would be if a city claim fell back to the county
\* when the district has no city.
jurisdictions_match_fallback(claimed, actual_city, actual_county) ==
    LET normalized_claim == normalize_jurisdiction(claimed)
    IN  IF is_city_claim(claimed) /\ Truthy(actual_city)
        THEN <<normalized_claim = normalize_jurisdiction(actual_city), actual_city>>
        ELSE IF Truthy(actual_county)
             THEN <<normalized_claim = normalize_jurisdiction(actual_county), actual_county>>
             ELSE <<FALSE, IF is_city_claim(claimed) THEN Unincorporated ELSE Unknown>>

\* returns <<match, actual_jurisdiction>>
jurisdictions_match(claimed, actual_city, actual_county) ==
    LET normalized_claim == normalize_jurisdiction(claimed)
    IN  IF is_city_claim(claimed)
        THEN IF Truthy(actual_city)
             THEN <<normalized_claim = normalize_jurisdiction(actual_city), actual_city>>
             ELSE <<FALSE, IF Truthy(actual_county) THEN actual_county ELSE Unincorporated>>
        ELSE IF Truthy(actual_county)
             THEN <<normalized_claim = normalize_jurisdiction(actual_county), actual_county>>
             ELSE <<FALSE, Unknown>>

-----------------------------------------------------------------------------
(* Dates *)

\* Python's None where a date is expected (date ordinals start at 1).
NoDate == 0

SecondsPerDay == 86400

IsLeap(y) == (y % 4 = 0 /\ y % 100 # 0) \/ y % 400 = 0

DaysInMonth(y, m) ==
    IF m = 2 THEN (IF IsLeap(y) THEN 29 ELSE 28)
    ELSE IF m \in {4, 6, 9, 11} THEN 30 ELSE 31

RECURSIVE DaysBeforeMonth(_, _)
DaysBeforeMonth(y, m) ==
    IF m = 1 THEN 0 ELSE DaysBeforeMonth(y, m - 1) + DaysInMonth(y, m - 1)

\* date(y, m, d).toordinal()
DateOrdinal(y, m, d) ==
    (y - 1) * 365 + ((y - 1) \div 4) - ((y - 1) \div 100) + ((y - 1) \div 400)
    + DaysBeforeMonth(y, m) + d

\* The day on which the process starts (the clock reads 0 at its midnight).
StartDay == DateOrdinal(2026, 1, 5)

\* date.today() when the clock reads t
Today(t) == StartDay + (t \div SecondsPerDay)

IsDigit(c) == c \in DigitSet
DigitValue == [c \in DigitSet |-> (CHOOSE i \in 1..10 : Digits[i] = c) - 1]
DigitVal(c) == DigitValue[c]

\* strptime's %m: 1[0-2]|0[1-9]|[1-9]; 0 when the field is no month
MonthField(f) ==
    IF Len(f) = 1 /\ IsDigit(f[1]) /\ f[1] # "0" THEN DigitVal(f[1])
    ELSE IF Len(f) = 2 /\ f[1] = "0" /\ IsDigit(f[2]) /\ f[2] # "0" THEN DigitVal(f[2])
    ELSE IF Len(f) = 2 /\ f[1] = "1" /\ f[2] \in {"0", "1", "2"} THEN 10 + DigitVal(f[2])
    ELSE 0

\* strptime's %d: 3[0-1]|[1-2]\d|0[1-9]|[1-9]| [1-9]; 0 when the field is no day
DayField(f) ==
    IF Len(f) = 1 /\ IsDigit(f[1]) /\ f[1] # "0" THEN DigitVal(f[1])
    ELSE IF Len(f) = 2 /\ f[1] \in {"0", " "} /\ IsDigit(f[2]) /\ f[2] # "0" THEN DigitVal(f[2])
    ELSE IF Len(f) = 2 /\ f[1] \in {"1", "2"} /\ IsDigit(f[2])
         THEN 10 * DigitVal(f[1]) + DigitVal(f[2])
    ELSE IF Len(f) = 2 /\ f[1] = "3" /\ f[2] \in {"0", "1"} THEN 30 + DigitVal(f[2])
    ELSE 0

\* strptime's %y (two digits, 69..99 in the 1900s) and %Y (four digits); 0 when
\* the field is no year
YearField(f, digits) ==
    IF Len(f) # digits \/ \E i \in 1..Len(f) : ~IsDigit(f[i]) THEN 0
    ELSE IF digits = 2
         THEN LET v == 10 * DigitVal(f[1]) + DigitVal(f[2])
              IN  IF v < 69 THEN 2000 + v ELSE 1900 + v
         ELSE 1000 * DigitVal(f[1]) + 100 * DigitVal(f[2]) + 10 * DigitVal(f[3]) + DigitVal(f[4])

\* datetime.strptime(s, "%m/%d/%y" or "%m/%d/%Y").date(), NoDate on ValueError
strptime(s, digits) ==
    LET slashes == {i \in 1..Len(s) : s[i] = "/"}
    IN  IF Cardinality(slashes) # 2 THEN NoDate
        ELSE LET p1 == CHOOSE i \in slashes : \A j \in slashes : i <= j
                 p2 == CHOOSE i \in slashes : \A j \in slashes : j <= i
                 m  == MonthField(SubSeq(s, 1, p1 - 1))
                 d  == DayField(SubSeq(s, p1 + 1, p2 - 1))
                 y  == YearField(SubSeq(s, p2 + 1, Len(s)), digits)
             IN  IF m = 0 \/ d = 0 \/ y = 0 THEN NoDate
                 ELSE IF d > DaysInMonth(y, m) THEN NoDate
                 ELSE DateOrdinal(y, m, d)

\* A cell of the table read by pandas: a column the table lacks ("missing"), an
\* empty cell ("nan"), a date or timestamp ("ts", val its day) or text ("str").
MissingCell == [kind |-> "missing", val |-> <<>>]
NanCell == [kind |-> "nan", val |-> <<>>]
TsCell(d) == [kind |-> "ts", val |-> d]
StrCell(s) == [kind |-> "str", val |-> s]

parse_date(date_val) ==
    IF date_val.kind \in {"missing", "nan"} THEN NoDate
    ELSE IF date_val.kind = "ts" THEN date_val.val
    ELSE LET date_str == Strip(date_val.val)
         IN  IF date_str = <<>> \/ Lower(date_str) = <<"n","a","n">> THEN NoDate
             ELSE IF strptime(date_str, 2) # NoDate THEN strptime(date_str, 2)
             ELSE strptime(date_str, 4)

\* validate_coupon_dates as it would be with the end date excluded.
validate_coupon_dates_exclusive(coupon, today) ==
    IF coupon.start_date # NoDate /\ today < coupon.start_date
    THEN <<FALSE, [text |-> "Coupon not yet active (starts", date |-> coupon.start_date]>>
    ELSE IF coupon.end_date # NoDate /\ today >= coupon.end_date
    THEN <<FALSE, [text |-> "Coupon expired (ended", date |-> coupon.end_date]>>
    ELSE <<TRUE, [text |-> "Valid", date |-> NoDate]>>

\* returns <<valid, reason>>; today is date.today()
validate_coupon_dates(coupon, today) ==
    IF coupon.start_date # NoDate /\ today < coupon.start_date
    THEN <<FALSE, [text |-> "Coupon not yet active (starts", date |-> coupon.start_date]>>
    ELSE IF coupon.end_date # NoDate /\ today > coupon.end_date
    THEN <<FALSE, [text |-> "Coupon expired (ended", date |-> coupon.end_date]>>
    ELSE <<TRUE, [text |-> "Valid", date |-> NoDate]>>

-----------------------------------------------------------------------------
(* The coupon tables the sources can hold *)

Row(c, s, j, sd, ed) ==
    [Coupon |-> c, Program_Status |-> s, Jurisdiction |-> j, Start_Date |-> sd, End_Date |-> ed]

CityOfOjai == <<"C","i","t","y"," ","o","f"," ","O","j","a","i">>
OjaiCityOf == <<"O","j","a","i",","," ","C","i","t","y"," ","o","f">>
VenturaCounty == <<"V","e","n","t","u","r","a"," ","C","o","u","n","t","y">>
YoloCounty == <<"Y","o","l","o"," ","C","o","u","n","t","y">>

\* A spreadsheet: typed date cells, a padded lower-case code, an empty code cell.
Table1 == <<
    Row(StrCell(<<" ","o","j","1"," ">>), StrCell(<<"A","c","t","i","v","e">>),
        StrCell(CityOfOjai), TsCell(StartDay), TsCell(StartDay + 1)),
    Row(StrCell(<<"V","C","1">>), StrCell(<<"A","C","T","I","V","E"," ">>),
        StrCell(VenturaCounty), NanCell, NanCell),
    Row(NanCell, StrCell(<<"A","c","t","i","v","e">>), StrCell(YoloCounty), NanCell, NanCell) >>

\* Delimited text: dates as text, a coupon outside its window and not active, and a
\* jurisdiction in the "Name, City of" form.
Table2 == <<
    Row(StrCell(<<"O","J","1">>), StrCell(<<"P","a","u","s","e","d">>),
        StrCell(CityOfOjai), StrCell(<<"1","/","7","/","2","6">>),
        StrCell(<<"1","/","8","/","2","0","2","6">>)),
    Row(StrCell(<<"o","j","2">>), StrCell(<<"a","c","t","i","v","e">>),
        StrCell(OjaiCityOf), StrCell(<<"n","a","n">>), StrCell(<<"1","/","5","/","2","6">>)) >>

\* Two rows with one code, and a code that is blank.
Table3 == <<
    Row(StrCell(<<"n","e","w">>), StrCell(<<"P","a","u","s","e","d">>),
        StrCell(YoloCounty), NanCell, NanCell),
    Row(StrCell(<<" "," ">>), StrCell(<<"A","c","t","i","v","e">>),
        StrCell(YoloCounty), NanCell, NanCell),
    Row(StrCell(<<"N","E","W">>), StrCell(<<"A","c","t","i","v","e">>),
        StrCell(YoloCounty), StrCell(<<"1","/","6","/","2","6">>), NanCell) >>

\* A table without the columns the loader reads.
Table4 == << Row(MissingCell, MissingCell, MissingCell, MissingCell, MissingCell) >>

Tables == <<Table1, Table2, Table3, Table4>>

\* df = None: no source has yielded a table
NoFrame == 0

-----------------------------------------------------------------------------
(* load_coupons *)

\* _coupon_cache_time = None
NoTime == -1

\* the cache's time to live, in seconds
CacheTTL == 300

\* {}: the empty mapping
EmptyMap == [c \in {} |-> NoDate]

\* str(cell): the text of a cell holding text (or nothing); a missing column
\* reads as the default '' and an empty cell as 'nan'
CellStr(cell) == IF cell.kind = "nan" THEN <<"n","a","n">> ELSE cell.val

RowCode(row) == Upper(Strip(CellStr(row.Coupon)))

RowRecord(row) ==
    [code         |-> RowCode(row),
     status       |-> Strip(CellStr(row.Program_Status)),
     jurisdiction |-> Strip(CellStr(row.Jurisdiction)),
     start_date   |-> parse_date(row.Start_Date),
     end_date     |-> parse_date(row.End_Date)]

\* coupons[code] = record
Put(coupons, code, record) ==
    [c \in DOMAIN coupons \cup {code} |-> IF c = code THEN record ELSE coupons[c]]

\* ParseRows as it would be without the test for the null marker.
RECURSIVE ParseRowsKeepingNan(_, _, _)
ParseRowsKeepingNan(df, i, coupons) ==
    IF i > Len(df) THEN coupons
    ELSE ParseRowsKeepingNan(df, i + 1,
                             IF RowCode(df[i]) # <<>>
                             THEN Put(coupons, RowCode(df[i]), RowRecord(df[i]))
                             ELSE coupons)

\* the loop over df.iterrows(), from row i on
RECURSIVE ParseRows(_, _, _)
ParseRows(df, i, coupons) ==
    IF i > Len(df) THEN coupons
    ELSE ParseRows(df, i + 1,
                   IF RowCode(df[i]) # <<>> /\ RowCode(df[i]) # <<"N","A","N">>
                   THEN Put(coupons, RowCode(df[i]), RowRecord(df[i]))
                   ELSE coupons)

\* the mapping each table parses to
ParsedTables == [k \in DOMAIN Tables |-> ParseRows(Tables[k], 1, EmptyMap)]

ParseFrame(tbl) == ParsedTables[tbl]

\* (datetime.now() - _coupon_cache_time).seconds: the seconds field of a
\* timedelta, which holds days, seconds (0..86399) and microseconds
TimedeltaSeconds(t, since) == (t - since) % SecondsPerDay

\* A remote source is [ok, table]: whether the GET succeeds and the body parses,
\* and the table it then holds.  A local source is [exists, ok, table].
\* env is [remote_xlsx, remote_csv, local_xlsx, local_csv].

\* the sources in the order load_coupons reads them
SourceOrder == <<"remote_xlsx", "remote_csv", "local_xlsx", "local_csv">>

\* Attempted as it would be without the "df is None" guard of the remote
\* delimited-text read: that source is read whatever the spreadsheet yielded.
AttemptedUnguarded(k, df, env) ==
    CASE k = 1 -> TRUE
      [] k = 2 -> TRUE
      [] k = 3 -> df = NoFrame /\ env.local_xlsx.exists
      [] k = 4 -> df = NoFrame /\ env.local_csv.exists

\* whether reading source k is attempted when df is the frame so far
Attempted(k, df, env) ==
    CASE k = 1 -> TRUE
      [] k = 2 -> df = NoFrame
      [] k = 3 -> df = NoFrame /\ env.local_xlsx.exists
      [] k = 4 -> df = NoFrame /\ env.local_csv.exists

\* the frame source k yields when read, NoFrame when the read raises
ReadSource(k, env) ==
    IF env[SourceOrder[k]].ok THEN env[SourceOrder[k]].table ELSE NoFrame

\* the state of the four reads after source k: the frame and the reads attempted
RECURSIVE Fetch(_, _)
Fetch(k, env) ==
    IF k = 0 THEN [df |-> NoFrame, attempts |-> <<>>, used |-> "none"]
    ELSE LET before == Fetch(k - 1, env)
         IN  IF Attempted(k, before.df, env)
             THEN [df       |-> ReadSource(k, env),
                   attempts |-> Append(before.attempts, SourceOrder[k]),
                   used     |-> IF ReadSource(k, env) # NoFrame THEN SourceOrder[k] ELSE "none"]
             ELSE before

\* CacheFresh with the comparison of the age inverted.
CacheFreshInverted(force_refresh, cache, cache_time, t) ==
    /\ ~force_refresh
    /\ DOMAIN cache # {}
    /\ cache_time # NoTime
    /\ TimedeltaSeconds(t, cache_time) > CacheTTL

\* the test that lets load_coupons return the cached mapping
CacheFresh(force_refresh, cache, cache_time, t) ==
    /\ ~force_refresh
    /\ DOMAIN cache # {}
    /\ cache_time # NoTime
    /\ TimedeltaSeconds(t, cache_time) < CacheTTL

\* A call of load_coupons is described by what it returns (ret), the cache and
\* its time when it returns, and its trace: hit (the cached mapping was
\* returned), the reads attempted, the source used, and whether _coupon_cache
\* and _coupon_cache_time were assigned.

\* the call returns the cached mapping
LoadHit(call) ==
    call @@ [hit |-> TRUE, attempts |-> <<>>, used |-> "cache", ret |-> call.pre_cache,
             cache |-> call.pre_cache, time |-> call.pre_time,
             set_cache |-> FALSE, set_time |-> FALSE]

\* LoadFailed as it would be if the failure emptied the cache.
LoadFailedClearing(call, f) ==
    call @@ [hit |-> FALSE, attempts |-> f.attempts, used |-> "none", ret |-> EmptyMap,
             cache |-> EmptyMap, time |-> NoTime,
             set_cache |-> TRUE, set_time |-> TRUE]

\* no source yielded a table: the call returns {} before the assignments
LoadFailed(call, f) ==
    call @@ [hit |-> FALSE, attempts |-> f.attempts, used |-> "none", ret |-> EmptyMap,
             cache |-> call.pre_cache, time |-> call.pre_time,
             set_cache |-> FALSE, set_time |-> FALSE]

\* the mapping a updated with the records of b
Merged(a, b) == [c \in DOMAIN a \cup DOMAIN b |-> IF c \in DOMAIN b THEN b[c] ELSE a[c]]

\* LoadStored as it would be if the rows were put into the cached mapping
\* instead of a new one.
LoadStoredInPlace(call, f) ==
    call @@ [hit |-> FALSE, attempts |-> f.attempts, used |-> f.used,
             ret |-> Merged(call.pre_cache, ParseFrame(f.df)),
             cache |-> Merged(call.pre_cache, ParseFrame(f.df)), time |-> call.at,
             set_cache |-> TRUE, set_time |-> TRUE]

\* LoadStored as it would be if the call left the cache's time as it was.
LoadStoredNoTime(call, f) ==
    call @@ [hit |-> FALSE, attempts |-> f.attempts, used |-> f.used,
             ret |-> ParseFrame(f.df), cache |-> ParseFrame(f.df), time |-> call.pre_time,
             set_cache |-> TRUE, set_time |-> FALSE]

\* a source yielded the table f.df: it is parsed, assigned to the cache with
\* the time of the call, and returned
LoadStored(call, f) ==
    call @@ [hit |-> FALSE, attempts |-> f.attempts, used |-> f.used,
             ret |-> ParseFrame(f.df), cache |-> ParseFrame(f.df), time |-> call.at,
             set_cache |-> TRUE, set_time |-> TRUE]

\* load_coupons(force_refresh) when the cache holds (cache, cache_time), the
\* clock reads t and the sources are env
load_coupons(force_refresh, cache, cache_time, t, env) ==
    LET call == [force |-> force_refresh, pre_cache |-> cache, pre_time |-> cache_time,
                 at |-> t, env |-> env]
        f == Fetch(4, env)
    IN  IF CacheFresh(force_refresh, cache, cache_time, t) THEN LoadHit(call)
        ELSE IF f.df = NoFrame THEN LoadFailed(call, f)
        ELSE LoadStored(call, f)

-----------------------------------------------------------------------------
(* The geocoder and the district data *)

Ojai == <<"O","j","a","i">>
Ventura == <<"V","e","n","t","u","r","a">>
Davis == <<"D","a","v","i","s">>
Yolo == <<"Y","o","l","o">>

\* What geocode_address does for a request: it raises (the service is down,
\* answers with an error status or with a malformed body), it finds no
\* candidate, or it returns the point of the first candidate.
GeoRaise == [kind |-> "raise", point |-> 0]
GeoNone == [kind |-> "none", point |-> 0]
GeoPoint(p) == [kind |-> "point", point |-> p]

\* five points: in a city, in the unincorporated part of its county, in a city
\* of another county, outside every district, and one for which the lookup
\* raises (the district data cannot be read, or the location is no coordinate)
Points == 1..5

\* find_tax_district: the district whose polygon contains the point
find_tax_district(p) ==
    CASE p = 1 -> [raises |-> FALSE, found |-> TRUE, city |-> Ojai, county |-> Ventura]
      [] p = 2 -> [raises |-> FALSE, found |-> TRUE, city |-> None, county |-> Ventura]
      [] p = 3 -> [raises |-> FALSE, found |-> TRUE, city |-> Davis, county |-> Yolo]
      [] p = 5 -> [raises |-> TRUE, found |-> FALSE, city |-> None, county |-> None]
      [] OTHER -> [raises |-> FALSE, found |-> FALSE, city |-> None, county |-> None]

-----------------------------------------------------------------------------
(* /api/validate *)

\* A response of /api/validate: its status, its message (error responses), the
\* actual jurisdiction (accepted and denied ones), and the collaborators the
\* handler invoked.
Verdict(status, message, actual, calls) ==
    [status |-> status, message |-> message, actual |-> actual, calls |-> calls]

\* The response of validate_jurisdiction(address, jurisdiction), where geo is
\* what the geocoder does with the address.
validate_jurisdiction(jurisdiction, geo) ==
    LET district == find_tax_district(geo.point)
        matched == jurisdictions_match(jurisdiction, district.city, district.county)
    IN  IF geo.kind = "raise"
        THEN Verdict("error", "str(e)", None, <<"geocode_address">>)
        ELSE IF geo.kind = "none"
        THEN Verdict("error", "Address could not be geocoded", None, <<"geocode_address">>)
        ELSE IF district.raises
        THEN Verdict("error", "str(e)", None, <<"geocode_address", "find_tax_district">>)
        ELSE IF ~district.found
        THEN Verdict("error", "Address not found in California tax district data", None,
                     <<"geocode_address", "find_tax_district">>)
        ELSE Verdict(IF matched[1] THEN "accepted" ELSE "denied", "", matched[2],
                     <<"geocode_address", "find_tax_district", "jurisdictions_match">>)

-----------------------------------------------------------------------------
(* /api/validate-coupon *)

Reply(status, coupon, text, arg, calls) ==
    [status |-> status, coupon |-> coupon, reason |-> [text |-> text, arg |-> arg],
     calls |-> calls]

\* CouponIsActive as it would be if it only looked for the status "inactive".
CouponIsActiveLoose(coupon_data) ==
    Lower(coupon_data.status) # <<"i","n","a","c","t","i","v","e">>

\* coupon_data['status'].lower() == 'active'
CouponIsActive(coupon_data) ==
    Lower(coupon_data.status) = <<"a","c","t","i","v","e">>

\* CouponKnown as it would be without the test.
CouponKnownAlways(coupon_code, coupons) == TRUE

\* coupon_code in coupons
CouponKnown(coupon_code, coupons) == coupon_code \in DOMAIN coupons

\* CouponDenial as it would be with the date window checked before the status.
CouponDenialDatesFirst(coupon_data, today) ==
    LET dates == validate_coupon_dates(coupon_data, today)
    IN  IF ~dates[1]
        THEN [denied |-> TRUE, text |-> dates[2].text, arg |-> dates[2].date]
        ELSE IF ~CouponIsActive(coupon_data)
        THEN [denied |-> TRUE, text |-> "Coupon is", arg |-> coupon_data.status]
        ELSE [denied |-> FALSE, text |-> "", arg |-> <<>>]

\* the checks of the record itself, in the handler's order: the status, then
\* the date window; the reason of the first that fails
CouponDenial(coupon_data, today) ==
    LET dates == validate_coupon_dates(coupon_data, today)
    IN  IF ~CouponIsActive(coupon_data)
        THEN [denied |-> TRUE, text |-> "Coupon is", arg |-> coupon_data.status]
        ELSE IF ~dates[1]
        THEN [denied |-> TRUE, text |-> dates[2].text, arg |-> dates[2].date]
        ELSE [denied |-> FALSE, text |-> "", arg |-> <<>>]

\* Caught as it would be without the try: the exception leaves the handler and
\* the framework answers with its own internal error.
CaughtNot(coupon, calls) == Reply("Internal Server Error", coupon, "", <<>>, calls)

\* except Exception as e: the response for an exception raised after `calls`
Caught(coupon, calls) == Reply("error", coupon, "str(e)", <<>>, calls)

\* The response of validate_coupon(address, coupon), where geo is what the
\* geocoder does with the address, coupons is what load_coupons() returned and
\* today is date.today().  calls lists the collaborators invoked after the load.
validate_coupon(coupon, geo, coupons, today) ==
    LET coupon_code == Upper(Strip(coupon))
    IN  IF ~CouponKnown(coupon_code, coupons)
        THEN Reply("denied", coupon_code, "Coupon code not found", <<>>, <<>>)
        ELSE IF coupon_code \notin DOMAIN coupons   \* coupons[coupon_code] raises KeyError
        THEN Caught(coupon, <<>>)
        ELSE
        LET coupon_data == coupons[coupon_code]
            denial == CouponDenial(coupon_data, today)
            district == find_tax_district(geo.point)
            matched == jurisdictions_match(coupon_data.jurisdiction, district.city,
                                           district.county)
        IN  IF denial.denied
            THEN Reply("denied", coupon_code, denial.text, denial.arg, <<>>)
            ELSE IF geo.kind = "raise"
            THEN Caught(coupon, <<"geocode_address">>)
            ELSE IF geo.kind = "none"
            THEN Reply("error", coupon_code, "Address could not be geocoded", <<>>,
                       <<"geocode_address">>)
            ELSE IF district.raises
            THEN Caught(coupon, <<"geocode_address", "find_tax_district">>)
            ELSE IF ~district.found
            THEN Reply("error", coupon_code, "Address not found in California tax district data",
                       <<>>, <<"geocode_address", "find_tax_district">>)
            ELSE IF matched[1]
            THEN Reply("accepted", coupon_code, "Address is within coupon jurisdiction",
                       coupon_data.jurisdiction,
                       <<"geocode_address", "find_tax_district", "jurisdictions_match">>)
            ELSE Reply("denied", coupon_code, "Address is in", matched[2],
                       <<"geocode_address", "find_tax_district", "jurisdictions_match">>)

-----------------------------------------------------------------------------
(* The service *)

MaxTicks == 2
MaxUploads == 1

\* the clock steps explored: half the time to live (one step stays within it, two
\* reach it) and a whole day
ClockSteps == {CacheTTL \div 2, SecondsPerDay}

\* the coupon codes requests submit
CouponInputs == { <<" ","o","j","1"," ">>, <<"O","J","2">>, <<"n","e","w">>, <<"n","a","n">> }

\* the jurisdictions /api/validate requests claim
JurisdictionInputs == {CityOfOjai, VenturaCounty, YoloCounty}

GeoOutcomes == {GeoRaise, GeoNone} \cup {GeoPoint(p) : p \in Points}

\* the configured secret, and the X-API-Key headers requests carry: none, the
\* secret, another text
UPLOAD_API_KEY == <<"s","e","c","r","e","t">>
ApiKeys == {None, UPLOAD_API_KEY, <<"S","e","c","r","e","t">>}

\* the bodies upload requests carry: nothing, a spreadsheet (it starts with PK),
\* a PK archive that is no spreadsheet, delimited text, bytes read_csv rejects
NoContent == [empty |-> TRUE, pk |-> FALSE, ok |-> FALSE, table |-> NoFrame]
Contents == { NoContent,
              [empty |-> FALSE, pk |-> TRUE,  ok |-> TRUE,  table |-> 3],
              [empty |-> FALSE, pk |-> TRUE,  ok |-> FALSE, table |-> NoFrame],
              [empty |-> FALSE, pk |-> FALSE, ok |-> TRUE,  table |-> 4],
              [empty |-> FALSE, pk |-> FALSE, ok |-> FALSE, table |-> NoFrame] }

Down == [ok |-> FALSE, table |-> NoFrame]
Serving(tbl) == [ok |-> TRUE, table |-> tbl]
Absent == [exists |-> FALSE, ok |-> FALSE, table |-> NoFrame]
File(ok, tbl) == [exists |-> TRUE, ok |-> ok, table |-> tbl]

Env == [remote_xlsx |-> remote_xlsx, remote_csv |-> remote_csv,
        local_xlsx |-> local_xlsx, local_csv |-> local_csv]

\* History: which load assigned a cache variable, as the instant, source and
\* frame of that load, and whether an upload has written its file since that
\* load read the sources; Cleared for the values the module starts with and an
\* upload resets them to.
Cleared == [at |-> NoTime, used |-> "none", frame |-> NoFrame, outdated |-> FALSE]
Stamp(ld) == [at |-> ld.at, used |-> ld.used, frame |-> Fetch(4, ld.env).df, outdated |-> FALSE]

\* the history h once an upload has written its file
Outdated(h) == IF h = Cleared THEN Cleared ELSE [h EXCEPT !.outdated = TRUE]

\* the module's globals and the history after a call ld of load_coupons that
\* started from the history (cl, tl)
Stored(ld, cl, tl) ==
    /\ coupon_cache' = ld.cache
    /\ coupon_cache_time' = ld.time
    /\ cache_load' = IF ld.set_cache THEN Stamp(ld) ELSE cl
    /\ time_load' = IF ld.set_time THEN Stamp(ld) ELSE tl

PureIdle == pc = "idle" /\ args = <<>> /\ ret = <<>>

Init ==
    /\ now = 0
    /\ coupon_cache = EmptyMap
    /\ coupon_cache_time = NoTime
    /\ remote_xlsx \in {Down, Serving(1)}
    /\ remote_csv \in {Down, Serving(2)}
    /\ local_xlsx = Absent
    /\ local_csv \in {Absent, File(TRUE, 3)}
    /\ uploads = 0
    /\ cache_load = Cleared
    /\ time_load = Cleared
    /\ nticks = 0
    /\ last = [op |-> "init"]
    /\ PureIdle

\* startup_event: the first load, before any request is served
Startup ==
    /\ last.op = "init"
    /\ \E ld \in {load_coupons(FALSE, coupon_cache, coupon_cache_time, now, Env)} :
           /\ Stored(ld, cache_load, time_load)
           /\ last' = [op |-> "startup", load |-> ld]
    /\ UNCHANGED <<now, remote_xlsx, remote_csv, local_xlsx, local_csv, uploads, nticks, pc, args, ret>>

\* GET /api/validate: the handler has no await and touches no shared state
Validate(jurisdiction, geo) ==
    /\ last.op # "init"
    /\ last' = [op |-> "validate", jurisdiction |-> jurisdiction, geo |-> geo,
                resp |-> validate_jurisdiction(jurisdiction, geo)]
    /\ UNCHANGED <<now, coupon_cache, coupon_cache_time, remote_xlsx, remote_csv,
                   local_xlsx, local_csv, uploads, cache_load, time_load, nticks, pc, args, ret>>

\* GET /api/validate-coupon: the handler has no await, it runs to its response
ValidateCoupon(coupon, geo) ==
    /\ last.op # "init"
    /\ \E ld \in {load_coupons(FALSE, coupon_cache, coupon_cache_time, now, Env)} :
           /\ Stored(ld, cache_load, time_load)
           /\ last' = [op |-> "validate_coupon", coupon |-> coupon, geo |-> geo,
                       today |-> Today(now), load |-> ld,
                       resp |-> validate_coupon(coupon, geo, ld.ret, Today(now))]
    /\ UNCHANGED <<now, remote_xlsx, remote_csv, local_xlsx, local_csv, uploads, nticks, pc, args, ret>>

\* UploadRejected as it would be if the cache were cleared before the key is checked.
UploadRejectedClearing(x_api_key) ==
    /\ coupon_cache' = EmptyMap
    /\ coupon_cache_time' = NoTime
    /\ cache_load' = Cleared
    /\ time_load' = Cleared
    /\ UNCHANGED <<local_xlsx, local_csv, uploads>>
    /\ last' = [op |-> "upload", http |-> 401, key |-> x_api_key, wrote |-> "none",
                pre_cache |-> coupon_cache, pre_time |-> coupon_cache_time,
                pre_files |-> <<local_xlsx, local_csv>>]

\* raise HTTPException(status_code=401): the first statement of the handler
UploadRejected(x_api_key) ==
    /\ UNCHANGED <<coupon_cache, coupon_cache_time, cache_load, time_load,
                   local_xlsx, local_csv, uploads>>
    /\ last' = [op |-> "upload", http |-> 401, key |-> x_api_key, wrote |-> "none",
                pre_cache |-> coupon_cache, pre_time |-> coupon_cache_time,
                pre_files |-> <<local_xlsx, local_csv>>]

\* POST /api/upload-coupons up to its await: the key is checked, then the
\* handler waits for the file or the body
UploadBegin(x_api_key) ==
    /\ last.op # "init"
    /\ IF x_api_key # UPLOAD_API_KEY
       THEN UploadRejected(x_api_key)
       ELSE /\ uploads < MaxUploads
            /\ uploads' = uploads + 1
            /\ last' = [op |-> "upload_await", key |-> x_api_key]
            /\ UNCHANGED <<coupon_cache, coupon_cache_time, cache_load, time_load,
                           local_xlsx, local_csv>>
    /\ UNCHANGED <<now, remote_xlsx, remote_csv, nticks, pc, args, ret>>

\* the sources once the content is written to the path its first bytes select
Written(content) ==
    [Env EXCEPT ![IF content.pk THEN "local_xlsx" ELSE "local_csv"] =
                    File(content.ok, content.table)]

\* UploadReload as it would be if the handler called load_coupons() on the
\* cache as it is, neither clearing it nor forcing the refresh.
UploadReloadUnforced(env) ==
    [load |-> load_coupons(FALSE, coupon_cache, coupon_cache_time, now, env),
     cl |-> cache_load, tl |-> time_load]

\* the cache is cleared and load_coupons(force_refresh=True) called: the call,
\* and the history it starts from
UploadReload(env) ==
    [load |-> load_coupons(TRUE, EmptyMap, NoTime, now, env), cl |-> Cleared, tl |-> Cleared]

\* the response after the reload ld: success, with len(coupons)
UploadDone(content, ld) ==
    [op |-> "upload", http |-> 200, content |-> content,
     wrote |-> IF content.pk THEN "local_xlsx" ELSE "local_csv",
     load |-> ld, coupons_loaded |-> Cardinality(DOMAIN ld.ret)]

\* POST /api/upload-coupons from its await on: the content is saved, the cache
\* cleared and the coupons loaded again, with no await in between.  write_ok is
\* whether the file can be opened for writing; if not, the exception becomes a
\* 500 and nothing has changed.
UploadFinish(content, write_ok) ==
    /\ uploads > 0
    /\ uploads' = uploads - 1
    /\ IF content.empty \/ ~write_ok
       THEN /\ last' = [op |-> "upload", http |-> IF content.empty THEN 400 ELSE 500,
                        content |-> content, wrote |-> "none"]
            /\ UNCHANGED <<coupon_cache, coupon_cache_time, local_xlsx, local_csv,
                           cache_load, time_load>>
       ELSE \E re \in {UploadReload(Written(content))} :
                /\ local_xlsx' = Written(content).local_xlsx
                /\ local_csv' = Written(content).local_csv
                /\ Stored(re.load, Outdated(re.cl), Outdated(re.tl))
                /\ last' = UploadDone(content, re.load)
    /\ UNCHANGED <<now, remote_xlsx, remote_csv, nticks, pc, args, ret>>

\* the remote store becomes reachable or unreachable
RemoteChange ==
    /\ last.op # "init"
    /\ \/ remote_xlsx' = (IF remote_xlsx.ok THEN Down ELSE Serving(1)) /\ remote_csv' = remote_csv
       \/ remote_csv' = (IF remote_csv.ok THEN Down ELSE Serving(2)) /\ remote_xlsx' = remote_xlsx
    /\ last' = [op |-> "remote"]
    /\ UNCHANGED <<now, coupon_cache, coupon_cache_time, local_xlsx, local_csv, uploads,
                   cache_load, time_load, nticks, pc, args, ret>>

\* time passes
Tick(d) ==
    /\ last.op # "init"
    /\ nticks < MaxTicks
    /\ nticks' = nticks + 1
    /\ now' = now + d
    /\ last' = [op |-> "tick"]
    /\ UNCHANGED <<coupon_cache, coupon_cache_time, remote_xlsx, remote_csv, local_xlsx,
                   local_csv, uploads, cache_load, time_load, pc, args, ret>>

\* the steps of the service when /api/validate requests are `validations`
\* (each a claimed jurisdiction and what the geocoder does with the address),
\* /api/validate-coupon requests carry the coupon codes of `coupons` with
\* addresses the geocoder treats as in `geos`, uploads carry `contents` and the
\* clock moves by `steps`
Serve(validations, coupons, geos, contents, steps) ==
    \/ Startup
    \/ \E v \in validations : Validate(v.jurisdiction, v.geo)
    \/ \E coupon \in coupons, geo \in geos : ValidateCoupon(coupon, geo)
    \/ \E x_api_key \in ApiKeys : UploadBegin(x_api_key)
    \/ \E content \in contents, write_ok \in BOOLEAN : UploadFinish(content, write_ok)
    \/ RemoteChange
    \/ \E d \in steps : Tick(d)

\* one /api/validate request: the handler shares no state with the others
OneValidation == {[jurisdiction |-> CityOfOjai, geo |-> GeoPoint(1)]}

\* The cache under every clock step, with one request shape (what a request asks
\* has no part in load_coupons).
NextCache == Serve(OneValidation, {<<"o","j","1">>}, {GeoPoint(1)}, Contents, ClockSteps)
SpecCache == Init /\ [][NextCache]_vars

\* The coupon requests in full, from day to day (the date windows), with uploads
\* that carry nothing or a spreadsheet.
Next == Serve(OneValidation, CouponInputs, GeoOutcomes,
              {c \in Contents : c.empty \/ (c.pk /\ c.ok)}, {SecondsPerDay})
Spec == Init /\ [][Next]_vars

\* The two validation endpoints in full, with every claim and every outcome of
\* the geocoder and the district lookup, over the sources as they come and go.
NextRequests ==
    \/ Startup
    \/ \E jurisdiction \in JurisdictionInputs, geo \in GeoOutcomes : Validate(jurisdiction, geo)
    \/ \E coupon \in CouponInputs, geo \in GeoOutcomes : ValidateCoupon(coupon, geo)
    \/ RemoteChange
    \/ Tick(SecondsPerDay)
SpecRequests == Init /\ [][NextRequests]_vars

-----------------------------------------------------------------------------
(* Single calls of the pure functions, over bounded inputs *)

MaxTokens == 3
MaxClaimTokens == 2
MaxDays == 3

\* the pieces jurisdiction names are made of
Tokens == { <<"C","i","t","y"," ","o","f"," ">>, <<","," ","C","i","t","y"," ","o","f">>,
            <<" ","C","o","u","n","t","y">>, <<" ","C","O","U","N","T","Y">>,
            <<"C","o","u","n","t","y"," ","o","f"," ">>, <<"c","i","t","y">>, <<" ">>,
            <<"S","a","c","r","a","m","e","n","t","o">>,
            <<"S","A","C","R","A","M","E","N","T","O">>, <<"Y","o","l","o">> }

\* the texts of at most n tokens
RECURSIVE Texts(_)
Texts(n) ==
    IF n = 0 THEN {<<>>}
    ELSE LET shorter == Texts(n - 1)
         IN  shorter \cup {t \o u : t \in shorter, u \in Tokens}

\* what the district data can hold for a city or a county
Actuals == { None, <<>>, <<"S","a","c","r","a","m","e","n","t","o">>,
             <<"S","A","C","R","A","M","E","N","T","O">>, <<"Y","o","l","o">>,
             <<"S","a","c","r","a","m","e","n","t","o"," ","C","o","u","n","t","y">> }

\* the service is not running while a single function is called
ServiceIdle ==
    /\ coupon_cache = EmptyMap
    /\ coupon_cache_time = NoTime
    /\ remote_xlsx = Down
    /\ remote_csv = Down
    /\ local_xlsx = Absent
    /\ local_csv = Absent
    /\ uploads = 0
    /\ cache_load = Cleared
    /\ time_load = Cleared
    /\ nticks = 0
    /\ last = [op |-> "init"]

InitNormalize ==
    /\ ServiceIdle
    /\ now = 0
    /\ pc = "call"
    /\ args \in {[fn |-> "normalize_jurisdiction", name |-> n] : n \in Texts(MaxTokens) \cup {None}}
    /\ ret = <<>>

CallNormalize ==
    /\ pc = "call"
    /\ args.fn = "normalize_jurisdiction"
    /\ ret' = normalize_jurisdiction(args.name)
    /\ pc' = "done"
    /\ UNCHANGED <<now, args, sysvars>>

SpecNormalize == InitNormalize /\ [][CallNormalize]_vars

InitMatch ==
    /\ ServiceIdle
    /\ now = 0
    /\ pc = "call"
    /\ args \in {[fn |-> "jurisdictions_match", claimed |-> c, actual_city |-> a, actual_county |-> b] :
                    c \in Texts(MaxClaimTokens), a \in Actuals, b \in Actuals}
    /\ ret = <<>>

CallMatch ==
    /\ pc = "call"
    /\ args.fn = "jurisdictions_match"
    /\ ret' = jurisdictions_match(args.claimed, args.actual_city, args.actual_county)
    /\ pc' = "done"
    /\ UNCHANGED <<now, args, sysvars>>

SpecMatch == InitMatch /\ [][CallMatch]_vars

\* the days around the start of the process, and no date
Dates == {NoDate} \cup {StartDay + k : k \in 0..MaxDays}

InitDates ==
    /\ ServiceIdle
    /\ now \in {k * SecondsPerDay + s : k \in 0..MaxDays, s \in {0, SecondsPerDay - 1}}
    /\ pc = "call"
    /\ args \in {[fn |-> "validate_coupon_dates", coupon |-> [start_date |-> a, end_date |-> b]] :
                    a \in Dates, b \in Dates}
    /\ ret = <<>>

CallDates ==
    /\ pc = "call"
    /\ args.fn = "validate_coupon_dates"
    /\ ret' = validate_coupon_dates(args.coupon, Today(now))
    /\ pc' = "done"
    /\ UNCHANGED <<now, args, sysvars>>

SpecDates == InitDates /\ [][CallDates]_vars

-----------------------------------------------------------------------------
(* Properties *)

\* the step just taken called load_coupons; last.load is that call
LoadRan == last.op \in {"startup", "validate_coupon"} \/ (last.op = "upload" /\ last.http = 200)

Active == <<"a","c","t","i","v","e">>

\* C1: a /api/validate-coupon response is "accepted" only if the submitted code,
\* trimmed and upper-cased, is a key of the mapping load_coupons returned, that
\* record's status is "active" whatever its case, today is inside the record's
\* date window, the address was geocoded and lies in a district, and
\* jurisdictions_match of the record's jurisdiction against the district's city
\* and county is true.
C1_AcceptedOnlyIfEligible ==
    (last.op = "validate_coupon" /\ last.resp.status = "accepted") =>
        /\ Upper(Strip(last.coupon)) \in DOMAIN last.load.ret
        /\ LET record == last.load.ret[Upper(Strip(last.coupon))]
               district == find_tax_district(last.geo.point)
           IN  /\ Lower(record.status) = Active
               /\ record.start_date = NoDate \/ last.today >= record.start_date
               /\ record.end_date = NoDate \/ last.today <= record.end_date
               /\ last.today = Today(now)
               /\ last.geo.kind = "point"
               /\ district.found
               /\ jurisdictions_match(record.jurisdiction, district.city, district.county)[1]

\* a coupon loaded from an uploaded file is accepted on a later day, from the cache
C1_Witness ==
    /\ last.op = "validate_coupon"
    /\ last.resp.status = "accepted"
    /\ last.resp.coupon = <<"N","E","W">>
    /\ last.load.hit
    /\ local_xlsx.exists

\* C2: normalize_jurisdiction returns "sacramento" for "City of Sacramento",
\* "Sacramento, City of" and "SACRAMENTO COUNTY", and for a place name N the
\* forms "City of N", "N, City of", "N County" and "N" all normalize to N in
\* lower case.
PlaceNames == { <<"S","a","c","r","a","m","e","n","t","o">>,
                <<"S","A","C","R","A","M","E","N","T","O">>, <<"Y","o","l","o">> }

Forms(n) == { <<"C","i","t","y"," ","o","f"," ">> \o n, n \o <<","," ","C","i","t","y"," ","o","f">>,
              n \o <<" ","C","o","u","n","t","y">>, n }

C2_NormalizeCanonical ==
    (pc = "done" /\ args.fn = "normalize_jurisdiction") =>
        /\ args.name \in { <<"C","i","t","y"," ","o","f"," ","S","a","c","r","a","m","e","n","t","o">>,
                           <<"S","a","c","r","a","m","e","n","t","o",","," ","C","i","t","y"," ","o","f">>,
                           <<"S","A","C","R","A","M","E","N","T","O"," ","C","O","U","N","T","Y">> }
              => ret = <<"s","a","c","r","a","m","e","n","t","o">>
        /\ \A n \in PlaceNames : args.name \in Forms(n) => ret = Lower(n)

\* C3: jurisdictions_match returns, for a claim that contains "city" in any
\* case, (normalize(claimed) = normalize(city), city) when the city is present
\* and (false, county or "Unincorporated area") when it is absent; for a claim
\* that does not, (normalize(claimed) = normalize(county), county) when the
\* county is present and (false, "Unknown") otherwise.  Present: not None and
\* not empty.
MentionsCity(s) ==
    \E i \in 1..(Len(s) - 3) :
        <<LowerChar(s[i]), LowerChar(s[i + 1]), LowerChar(s[i + 2]), LowerChar(s[i + 3])>>
            = <<"c","i","t","y">>

Present(x) == x # None /\ Len(x) > 0

C3_MatchCases ==
    (pc = "done" /\ args.fn = "jurisdictions_match") =>
        LET claim == normalize_jurisdiction(args.claimed)
            city == args.actual_city
            county == args.actual_county
        IN  /\ (MentionsCity(args.claimed) /\ Present(city))
                  => ret = <<claim = normalize_jurisdiction(city), city>>
            /\ (MentionsCity(args.claimed) /\ ~Present(city))
                  => ret = <<FALSE, IF Present(county) THEN county ELSE Unincorporated>>
            /\ (~MentionsCity(args.claimed) /\ Present(county))
                  => ret = <<claim = normalize_jurisdiction(county), county>>
            /\ (~MentionsCity(args.claimed) /\ ~Present(county))
                  => ret = <<FALSE, Unknown>>

\* a city claim whose normal form is that of the county, in a district without a city
C3_Witness ==
    /\ pc = "done"
    /\ args.fn = "jurisdictions_match"
    /\ MentionsCity(args.claimed)
    /\ ~Present(args.actual_city)
    /\ Present(args.actual_county)
    /\ normalize_jurisdiction(args.claimed) = normalize_jurisdiction(args.actual_county)
    /\ ret = <<FALSE, args.actual_county>>

\* C4: validate_coupon_dates is valid exactly when today is not before a present
\* start date and not after a present end date; the reason is the "not yet
\* active" one when today is before the start, else the "expired" one when
\* today is after the end, else "Valid".
C4_DateWindow ==
    (pc = "done" /\ args.fn = "validate_coupon_dates") =>
        LET today == Today(now)
            start == args.coupon.start_date
            end == args.coupon.end_date
        IN  /\ ret[1] = ((start = NoDate \/ today >= start) /\ (end = NoDate \/ today <= end))
            /\ ret[2].text = (IF start # NoDate /\ today < start THEN "Coupon not yet active (starts"
                              ELSE IF end # NoDate /\ today > end THEN "Coupon expired (ended"
                              ELSE "Valid")

\* a coupon whose window is the single day today is valid
C4_Witness ==
    /\ pc = "done"
    /\ args.fn = "validate_coupon_dates"
    /\ args.coupon.start_date = Today(now)
    /\ args.coupon.end_date = Today(now)
    /\ ret[1]

\* C5: a request whose code, trimmed and upper-cased, is no key of the mapping
\* load_coupons returned is denied with "Coupon code not found", never an error.
C5_UnknownCodeDenied ==
    (last.op = "validate_coupon" /\ Upper(Strip(last.coupon)) \notin DOMAIN last.load.ret) =>
        /\ last.resp.status = "denied"
        /\ last.resp.reason.text = "Coupon code not found"

\* no source could be loaded, the mapping is empty, and the request is denied
C5_Witness ==
    /\ last.op = "validate_coupon"
    /\ ~last.load.hit
    /\ last.load.used = "none"
    /\ DOMAIN last.load.ret = {}
    /\ last.resp.status = "denied"
    /\ last.resp.reason.text = "Coupon code not found"

\* C6: load_coupons without force_refresh, with a non-empty cached mapping stored
\* less than 300 seconds ago, returns that mapping, reads no source and leaves
\* the cache and its time as they were.
StoredWithin(ld) ==
    /\ ld.pre_time # NoTime
    /\ 0 <= ld.at - ld.pre_time
    /\ ld.at - ld.pre_time < 300

C6_FreshCacheReturned ==
    (LoadRan /\ ~last.load.force /\ DOMAIN last.load.pre_cache # {} /\ StoredWithin(last.load)) =>
        /\ last.load.ret = last.load.pre_cache
        /\ last.load.attempts = <<>>
        /\ coupon_cache = last.load.pre_cache
        /\ coupon_cache_time = last.load.pre_time

\* a request 150 seconds after the load that filled the cache
C6_Witness ==
    /\ last.op = "validate_coupon"
    /\ DOMAIN last.load.pre_cache # {}
    /\ last.load.pre_time # NoTime
    /\ last.load.at - last.load.pre_time = 150
    /\ last.load.hit

\* C7: load_coupons called 300 or more seconds after the cache was stored,
\* however long after, or with force_refresh, fetches from the sources again.
C7_StaleCacheRefetched ==
    (LoadRan /\ (last.load.force
                 \/ (last.load.pre_time # NoTime /\ last.load.at - last.load.pre_time >= 300))) =>
        /\ ~last.load.hit
        /\ last.load.attempts # <<>>

\* C8: a load that fetches reads the sources in the order remote spreadsheet,
\* remote delimited text, local spreadsheet, local delimited text, each at most
\* once, none after one that yielded a table; a source that fails is followed
\* by the next one, and the first that yields a table gives the data.
Order == <<"remote_xlsx", "remote_csv", "local_xlsx", "local_csv">>

Yields(env, k) == env[Order[k]].ok

\* source k is to be read: none before it yields a table, and a local file exists
ToRead(env, k) ==
    /\ \A j \in 1..(k - 1) : ~Yields(env, j)
    /\ k > 2 => env[Order[k]].exists

RECURSIVE ReadsFrom(_, _)
ReadsFrom(env, k) ==
    IF k > 4 THEN <<>>
    ELSE (IF ToRead(env, k) THEN <<Order[k]>> ELSE <<>>) \o ReadsFrom(env, k + 1)

C8_SourceOrder ==
    (LoadRan /\ ~last.load.hit) =>
        LET env == last.load.env
            good == {k \in 1..4 : ToRead(env, k) /\ Yields(env, k)}
        IN  /\ last.load.attempts = ReadsFrom(env, 1)
            /\ \A k \in good :
                  /\ last.load.used = Order[k]
                  /\ last.load.ret = ParseRows(Tables[env[Order[k]].table], 1, EmptyMap)
            /\ good = {} => last.load.used = "none"

\* both remote sources and the local spreadsheet failed, the local text was used
C8_Witness ==
    /\ LoadRan
    /\ ~last.load.hit
    /\ last.load.attempts = Order
    /\ last.load.used = "local_csv"
    /\ ~last.load.env.local_xlsx.ok

\* C9: a load that fetches and finds no source returns the empty mapping and
\* leaves the cache and its time as they were before the call.
C9_FailedLoadKeepsCache ==
    (LoadRan /\ ~last.load.hit /\ \A k \in 1..4 : ~Yields(last.load.env, k)) =>
        /\ DOMAIN last.load.ret = {}
        /\ coupon_cache = last.load.pre_cache
        /\ coupon_cache_time = last.load.pre_time

\* the cache held coupons, expired, and every source failed
C9_Witness ==
    /\ last.op = "validate_coupon"
    /\ ~last.load.hit
    /\ last.load.used = "none"
    /\ DOMAIN last.load.pre_cache # {}
    /\ DOMAIN last.load.ret = {}
    /\ DOMAIN coupon_cache # {}

\* C10: in every state other handlers can see, the cached mapping and the
\* cache's time come from the same load, or are both the cleared values.
C10_CachePaired ==
    /\ cache_load = time_load
    /\ coupon_cache_time = time_load.at
    /\ coupon_cache = (IF cache_load = Cleared THEN EmptyMap ELSE ParseRows(Tables[cache_load.frame], 1, EmptyMap))

\* a request replaced the cached mapping while an upload waited for its body
C10_Witness ==
    /\ last.op = "validate_coupon"
    /\ last.load.set_cache
    /\ DOMAIN last.load.pre_cache # {}
    /\ uploads > 0
    /\ cache_load # Cleared

-----------------------------------------------------------------------------
(* Properties of concurrent requests, uploads and the handlers' outcomes *)

NullMarker == <<"N","A","N">>

\* the rows of table tbl whose code, trimmed and upper-cased, is c
RowsWithCode(tbl, c) == {i \in 1..Len(Tables[tbl]) : Upper(Strip(CellStr(Tables[tbl][i].Coupon))) = c}

\* the codes of table tbl that are neither empty nor the null marker
CodesOf(tbl) ==
    {Upper(Strip(CellStr(Tables[tbl][i].Coupon))) : i \in 1..Len(Tables[tbl])} \ {<<>>, NullMarker}

\* the last row of table tbl with code c
LastRow(tbl, c) == Tables[tbl][CHOOSE i \in RowsWithCode(tbl, c) : \A j \in RowsWithCode(tbl, c) : j <= i]

\* the complete mapping of table tbl: one record per code, that of its last row
WholeMapping(tbl) == [c \in CodesOf(tbl) |-> RowRecord(LastRow(tbl, c))]

\* C11: whatever the order in which requests, uploads, source changes and clock
\* steps interleave, the mapping a caller gets from load_coupons is empty or is
\* the complete mapping of the one table that one source held at one load (the
\* load of this call, or the load that filled the cache this call returned):
\* never part of it, never records of two loads.
C11_WholeMappingReturned ==
    LoadRan =>
        \/ DOMAIN last.load.ret = {}
        \/ /\ ~last.load.hit
           /\ last.load.used \in Range(Order)
           /\ last.load.env[last.load.used].ok
           /\ last.load.ret = WholeMapping(last.load.env[last.load.used].table)
        \/ /\ last.load.hit
           /\ cache_load.used \in Range(Order)
           /\ last.load.ret = WholeMapping(cache_load.frame)

\* a request found the cache expired and got the complete mapping of another
\* source than the one the cache had been filled from
C11_Witness ==
    /\ last.op = "validate_coupon"
    /\ ~last.load.hit
    /\ DOMAIN last.load.pre_cache # {}
    /\ DOMAIN last.load.ret # {}
    /\ last.load.ret # last.load.pre_cache
    /\ last.load.ret = WholeMapping(2)

\* C12: the mapping any load_coupons call returns was read from the sources
\* after the last file an upload has written: once an upload has succeeded, no
\* call returns a mapping read before it, whatever ran while the upload waited
\* for its body.
C12_UploadInvalidates ==
    /\ (LoadRan /\ last.load.used # "none") => ~cache_load.outdated  \* what the call returned
    /\ ~cache_load.outdated /\ ~time_load.outdated                   \* what later calls find
    /\ (last.op = "upload" /\ last.http = 200) =>
           /\ ~last.load.hit
           /\ last.load.at = now
           /\ coupon_cache = (IF last.load.used = "none" THEN EmptyMap ELSE last.load.ret)

\* a request served from the cache that an upload's reload filled from the
\* uploaded spreadsheet
C12_Witness ==
    /\ last.op = "validate_coupon"
    /\ last.load.hit
    /\ cache_load.used = "local_xlsx"
    /\ local_xlsx.ok
    /\ last.load.ret = WholeMapping(3)

\* C13: an upload request passes the key check only with the configured secret;
\* one without a key or with another key is answered 401, writes no file and
\* leaves the cached mapping and its time as they were.
C13_RejectedUploadChangesNothing ==
    /\ last.op = "upload_await" => last.key = UPLOAD_API_KEY
    /\ (last.op = "upload" /\ last.http = 401) =>
           /\ last.key # UPLOAD_API_KEY
           /\ last.wrote = "none"
           /\ coupon_cache = last.pre_cache
           /\ coupon_cache_time = last.pre_time
           /\ <<local_xlsx, local_csv>> = last.pre_files

\* a request without a key is rejected while the cache holds coupons
C13_Witness ==
    /\ last.op = "upload"
    /\ last.http = 401
    /\ last.key = None
    /\ DOMAIN coupon_cache # {}
    /\ coupon_cache_time # NoTime

\* C14: an authenticated upload answers 400 when no content was received, an
\* error (400 or 500) when the content cannot be parsed as coupon data, and
\* success only for content that can, with coupons_loaded the number of records
\* of the forced reload.
C14_UploadOutcome ==
    (last.op = "upload" /\ last.http # 401) =>
        /\ last.content.empty => last.http = 400
        /\ (~last.content.empty /\ ~last.content.ok) => last.http \in {400, 500}
        /\ last.http = 200 =>
               /\ last.content.ok
               /\ last.load.force
               /\ last.coupons_loaded = Cardinality(DOMAIN last.load.ret)

Statuses == {"accepted", "denied", "error"}

\* the last collaborator the handler invoked
LastCall(calls) == IF calls = <<>> THEN "none" ELSE calls[Len(calls)]

\* C15: every response of /api/validate and /api/validate-coupon has the status
\* accepted, denied or error; when the geocoder or the district lookup raises,
\* the status is error and the text is the exception's message; when the
\* geocoder finds no candidate or the point lies in no district, the status is
\* error.
C15_ValidationOutcome ==
    (last.op \in {"validate", "validate_coupon"}) =>
        LET resp == last.resp
            text == IF last.op = "validate" THEN resp.message ELSE resp.reason.text
            raised == \/ LastCall(resp.calls) = "geocode_address" /\ last.geo.kind = "raise"
                      \/ /\ LastCall(resp.calls) = "find_tax_district"
                         /\ find_tax_district(last.geo.point).raises
            missed == \/ LastCall(resp.calls) = "geocode_address" /\ last.geo.kind = "none"
                      \/ /\ LastCall(resp.calls) = "find_tax_district"
                         /\ ~find_tax_district(last.geo.point).raises
                         /\ ~find_tax_district(last.geo.point).found
        IN  /\ resp.status \in Statuses
            /\ raised => (resp.status = "error" /\ text = "str(e)")
            /\ missed => (resp.status = "error" /\ text # "str(e)")
            /\ last.op = "validate" => resp.calls # <<>>
            /\ (last.op = "validate" /\ last.geo.kind # "point") =>
                   LastCall(resp.calls) = "geocode_address"

\* the district lookup raised for a coupon that passed its own checks
C15_Witness ==
    /\ last.op = "validate_coupon"
    /\ last.geo = GeoPoint(5)
    /\ last.resp.calls = <<"geocode_address", "find_tax_district">>
    /\ last.resp.status = "error"
    /\ last.resp.reason.text = "str(e)"

\* C16: every key of the cached mapping is non-empty, has no surrounding
\* whitespace and no lower-case letter, is not "NAN", and is the code of its
\* record; the mapping has one record for each such code of the table it was
\* loaded from and none for a row with an empty or null-marker code; for a
\* code on several rows the record is that of the last row.
C16_CacheKeys ==
    /\ \A c \in DOMAIN coupon_cache :
           /\ c # <<>>
           /\ ~IsSpace(c[1]) /\ ~IsSpace(c[Len(c)])
           /\ \A i \in 1..Len(c) : c[i] \notin LowerSet
           /\ c # NullMarker
           /\ coupon_cache[c].code = c
    /\ cache_load # Cleared =>
           /\ DOMAIN coupon_cache = CodesOf(cache_load.frame)
           /\ \A c \in DOMAIN coupon_cache :
                  coupon_cache[c] = RowRecord(LastRow(cache_load.frame, c))

\* the cache holds the table with a blank code and two rows for NEW: one record,
\* that of the second row
C16_Witness ==
    /\ cache_load.frame = 3
    /\ DOMAIN coupon_cache = {<<"N","E","W">>}
    /\ coupon_cache[<<"N","E","W">>].status = <<"A","c","t","i","v","e">>
    /\ coupon_cache[<<"N","E","W">>].start_date = StartDay + 1

CallOrder == <<"geocode_address", "find_tax_district", "jurisdictions_match">>

\* C17: /api/validate-coupon checks existence, status, date window, geocoding,
\* district and jurisdiction in this order and the first check that fails gives
\* the response; the geocoder and the district lookup are invoked only for a
\* known, active coupon inside its window; a coupon that is inactive and
\* outside its window is denied with "Coupon is <status>".
C17_CheckOrder ==
    (last.op = "validate_coupon") =>
        LET resp == last.resp
            code == Upper(Strip(last.coupon))
            known == code \in DOMAIN last.load.ret
            record == last.load.ret[code]
            active == Lower(record.status) = Active
            early == record.start_date # NoDate /\ last.today < record.start_date
            late == record.end_date # NoDate /\ last.today > record.end_date
            district == find_tax_district(last.geo.point)
        IN  /\ ~known => (resp.reason.text = "Coupon code not found" /\ resp.calls = <<>>)
            /\ (known /\ ~active) =>
                   /\ resp.status = "denied"
                   /\ resp.reason = [text |-> "Coupon is", arg |-> record.status]
                   /\ resp.calls = <<>>
            /\ (known /\ active /\ (early \/ late)) =>
                   /\ resp.status = "denied"
                   /\ resp.reason.text \in {"Coupon not yet active (starts", "Coupon expired (ended"}
                   /\ resp.calls = <<>>
            /\ (known /\ active /\ ~early /\ ~late) =>
                   /\ resp.calls = SubSeq(CallOrder, 1, Len(resp.calls))
                   /\ resp.calls # <<>>
                   /\ last.geo.kind # "point" => (resp.calls = <<"geocode_address">> /\ resp.status = "error")
                   /\ (last.geo.kind = "point" /\ (district.raises \/ ~district.found)) =>
                          (resp.calls = SubSeq(CallOrder, 1, 2) /\ resp.status = "error")
                   /\ (last.geo.kind = "point" /\ ~district.raises /\ district.found) =>
                          (resp.calls = CallOrder /\ resp.status \in {"accepted", "denied"})

\* a paused coupon whose window has not begun is denied for its status, and no
\* collaborator was invoked
C17_Witness ==
    /\ last.op = "validate_coupon"
    /\ last.resp.coupon = <<"O","J","1">>
    /\ <<"O","J","1">> \in DOMAIN last.load.ret
    /\ Lower(last.load.ret[<<"O","J","1">>].status) # Active
    /\ last.today < last.load.ret[<<"O","J","1">>].start_date
    /\ last.resp.status = "denied"
    /\ last.resp.reason.text = "Coupon is"
    /\ last.resp.calls = <<>>

====
